---- MODULE Spec2Model ----
(***************************************************************************)
(* A model of flx4control's microphone loopback engine                     *)
(* (src/flx4control/mic_loopback.py, class MicLoopback).                   *)
(*                                                                         *)
(* Volumes are fixed-point numbers: the float 1.0 is Unit, so the run      *)
(* threshold 0.001 is Unit \div 1000.  Python's None is the string None    *)
(* for a device name and the record NoStream for the stream handle.        *)
(*                                                                         *)
(* Each public operation runs with self._lock held.  It is two steps: the  *)
(* first takes the lock and stores the configuration field(s), the second  *)
(* runs the stream calls and releases the lock.  The audio callback reads  *)
(* self._muted and self._volume without the lock, so it can run between    *)
(* the two steps, while the old stream is still active.                    *)
(***************************************************************************)
EXTENDS Integers, Sequences, FiniteSets

VARIABLES
    volume,         \* self._volume
    muted,          \* self._muted
    input_device,   \* self._input_device
    output_device,  \* self._output_device
    stream,         \* self._stream (NoStream is None)
    nextId,         \* identity of the next sd.Stream object constructed
    pc,             \* "idle", or the public operation holding self._lock
    last,           \* the most recent public call: its name and arguments
    pre,            \* the engine's fields when that call took the lock
    api,            \* the sounddevice calls issued by that call, in order
    raised,         \* whether that call raised to its caller
    cb,             \* what the most recent audio callback read and computed
    script,         \* progress of the call history through Scenario
    opened,         \* that call's device enumerations and the indices it opened
    devs,           \* what sd.query_devices() does now: raise, or the list
    res,            \* the most recent _device_index call and its result
    buf,            \* the most recent callback's indata and outdata
    conn,           \* ControllerBridge's connection loop: fields and threads
    player,         \* audio_player: _mixer_ready, _init_lock, the calling threads
    config,         \* Config: the banks of self._data, the file, the last calls
    lock,           \* self._lock: 0, or the thread that holds it
    thr,            \* each calling thread's position in its public call
    sd,             \* the audio library's state of each stream constructed
    rt,             \* the audio thread's position in one callback invocation
    shadow,         \* the engine had the completed calls run one at a time
    bridge          \* ControllerBridge's fields and the position of its stop()

\* the threads' view: left alone by the one-caller specifications
tvars == <<lock, thr, sd, rt, shadow, bridge>>

\* one caller's call history: left alone by the threaded specifications
hvars == <<pc, last, pre, api, raised, cb, script, opened>>

\* the host's audio devices, the resolution of one name, and the bridge's
\* connection loop, the sound player and the configuration: left alone by
\* the engine's operations
dvars == <<devs, res, buf, conn, player, config>>

vars == <<volume, muted, input_device, output_device, stream, nextId,
          pc, last, pre, api, raised, cb, script, opened,
          lock, thr, sd, rt, shadow, bridge, devs, res, buf, conn,
          player, config>>

(* ------------------------------ bounds -------------------------------- *)

\* sd.Stream objects constructed in one behaviour
MaxStreams == 3

\* calls of ControllerBridge.start() in one behaviour
MaxLoops == 2

\* flx4py.DDJFlx4 objects constructed in one behaviour
MaxControllers == 2

\* threads calling play_sound
NPlayers == 2

\* calls of play_sound in one behaviour
MaxPlays == 4

\* calls of Config.set_pad_action in one behaviour
MaxSets == 3

\* threads calling the engine's public operations
NThreads == 2

\* sd.Stream objects constructed in one behaviour of the fair specification
FairStreams == 2

\* devices in the list sd.query_devices() returns
MaxDevices == 3

\* frames in one callback buffer
MaxFrames == 2

\* channels of the input stream
MaxChannels == 3

\* channels of the output stream
MaxOutChannels == 2

\* presses of a mute_mic pad in one behaviour
MaxToggles == 3

(* ----------------------------- constants ------------------------------ *)

\* the float 1.0
Unit == 10000

\* the run threshold 0.001
Eps == Unit \div 1000

None == "None"

NoStream == [id |-> 0, device |-> <<None, None>>]

\* arguments the callers pass to set_monitor_volume
VolumeInputs == {0 - Unit \div 2, 0, Eps, Eps + 1, (8 * Unit) \div 10, Unit, Unit + Unit \div 2}

\* identifiers the callers pass to set_devices
InputNames == {None, "USB Mic"}

OutputNames == {None, "Speakers"}

\* devices a host can have: a str name as its characters, and the two
\* channel counts of sd.query_devices()
UsbMicIn ==
    [name |-> <<"U", "S", "B", " ", "M", "i", "c">>,
     max_input_channels |-> 1, max_output_channels |-> 0]

UsbMicOut ==
    [name |-> <<"U", "S", "B", " ", "M", "i", "c">>,
     max_input_channels |-> 0, max_output_channels |-> 2]

Speakers ==
    [name |-> <<"s", "p", "e", "a", "k", "e", "r", "s">>,
     max_input_channels |-> 0, max_output_channels |-> 2]

WebcamMic ==
    [name |-> <<"m", "i", "c">>,
     max_input_channels |-> 2, max_output_channels |-> 2]

DevicePool == {UsbMicIn, UsbMicOut, Speakers, WebcamMic}

RECURSIVE ListsUpTo(_)
ListsUpTo(n) ==
    IF n = 0
    THEN {<<>>}
    ELSE LET shorter == ListsUpTo(n - 1)
         IN  shorter \cup {Append(l, d) : l \in shorter, d \in DevicePool}

\* what sd.query_devices() can do: raise, or return a list of devices
DeviceQueries ==
    {[ok |-> FALSE, list |-> <<>>]}
    \cup {[ok |-> TRUE, list |-> l] : l \in ListsUpTo(MaxDevices)}

\* the host at construction: speakers only
HostDevices == [ok |-> TRUE, list |-> <<Speakers>>]

\* names passed to _device_index
ResolveNames ==
    {<<>>, <<"m", "i", "c">>, <<"M", "I", "C">>, <<"u", "s", "b">>,
     <<"S", "p", "e", "a", "k", "e", "r", "s">>, <<"h", "d", "m", "i">>}

RECURSIVE Factorial(_)
Factorial(n) == IF n <= 1 THEN 1 ELSE n * Factorial(n - 1)

\* float32 samples as fixed-point numbers, fine enough for the mean of up
\* to MaxChannels of them to be a fixed-point number too
SampleValues == {0 - Factorial(MaxChannels), 2 * Factorial(MaxChannels)}

\* the indata buffers of the callback: frames rows of n channels each
Buffers ==
    UNION {[1..f -> [1..n -> SampleValues]] : f \in 1..MaxFrames, n \in 1..MaxChannels}

\* what the audio library does with each call of one operation, were it
\* issued: TRUE returns, FALSE raises
Outcomes == [Stream : BOOLEAN, start : BOOLEAN, stop : BOOLEAN, close : BOOLEAN]

AllOk == [Stream |-> TRUE, start |-> TRUE, stop |-> TRUE, close |-> TRUE]

StartOk == {o \in Outcomes : o.Stream /\ o.start}

(* ------------------------- the engine's code -------------------------- *)

\* Python's two-argument min and max: the first argument unless the second
\* is strictly smaller (larger)
PyMin(a, b) == IF b < a THEN b ELSE a

PyMax(a, b) == IF b > a THEN b ELSE a

\* mutant: the upper clamp forgotten
ClampVolume_noUpper(v) == PyMax(0, v)

\* volume = max(0.0, min(1.0, volume))
ClampVolume(v) == PyMax(0, PyMin(Unit, v))

\* the engine as one operation sees it: its fields, the library calls it
\* has issued, and whether an exception is propagating
Self ==
    [volume |-> volume, muted |-> muted, input_device |-> input_device,
     output_device |-> output_device, stream |-> stream,
     nextId |-> nextId, api |-> api, exc |-> FALSE,
     queries |-> opened.queries, index |-> opened.index]

Call(m, name, id, ok) ==
    [m EXCEPT !.api = Append(@, [call |-> name, id |-> id, ok |-> ok]),
              !.exc = ~ok]

\* the try block of _stop_stream: stop(), then close()
StopBody(m, o) ==
    LET s == Call(m, "stop", m.stream.id, o.stop)
    IN  IF s.exc THEN s ELSE Call(s, "close", m.stream.id, o.close)

\* mutant: the handle kept after the stream was stopped
_stop_stream_keep(m, o) ==
    IF m.stream # NoStream
    THEN [StopBody(m, o) EXCEPT !.exc = FALSE]
    ELSE m

\* mutant: no except clause around stop() and close()
_stop_stream_nocatch(m, o) ==
    IF m.stream # NoStream
    THEN LET s == StopBody(m, o)
         IN  IF s.exc THEN s ELSE [s EXCEPT !.stream = NoStream]
    ELSE m

\* _stop_stream: the except clause swallows, the handle is dropped
_stop_stream(m, o) ==
    IF m.stream # NoStream
    THEN [StopBody(m, o) EXCEPT !.exc = FALSE, !.stream = NoStream]
    ELSE m

\* str.lower() on one character: a str is the sequence of its characters
Lower(ch) ==
    CASE ch = "U" -> "u" [] ch = "S" -> "s" [] ch = "B" -> "b"
      [] ch = "M" -> "m" [] ch = "I" -> "i" [] ch = "C" -> "c"
      [] OTHER -> ch

StrLower(s) == [k \in 1..Len(s) |-> Lower(s[k])]

\* Python's a in b on two strs
StrIn(a, b) == \E i \in 1..(Len(b) - Len(a) + 1) : SubSeq(b, i, i + Len(a) - 1) = a

\* self._input_device or "" (self._output_device or ""), as characters
StrOf(name) ==
    CASE name = None -> <<>>
      [] name = "USB Mic" -> <<"U", "S", "B", " ", "M", "i", "c">>
      [] name = "Speakers" -> <<"S", "p", "e", "a", "k", "e", "r", "s">>

\* the index None: the platform default device
NoIndex == 0 - 1

\* name.lower() in d["name"].lower()
NameMatches(name, d) == StrIn(StrLower(name), StrLower(d.name))

\* mutant: the channel counts not looked at
KindMatches_any(kind, d) == TRUE

\* the two ifs on kind and the device's channel counts
KindMatches(kind, d) ==
    \/ kind = "input" /\ d.max_input_channels > 0
    \/ kind = "output" /\ d.max_output_channels > 0

\* the for loop of _device_index from position k of the list (enumerate
\* counts from 0), falling through to return None
RECURSIVE DeviceScan(_, _, _, _)
DeviceScan(name, kind, list, k) ==
    IF k > Len(list)
    THEN NoIndex
    ELSE IF NameMatches(name, list[k]) /\ KindMatches(kind, list[k])
         THEN k - 1
         ELSE DeviceScan(name, kind, list, k + 1)

\* _device_index: q is what sd.query_devices() does, raise or return a list
_device_index(name, kind, q) ==
    IF name = <<>>
    THEN NoIndex
    ELSE IF ~q.ok THEN NoIndex ELSE DeviceScan(name, kind, q.list, 1)

\* _device_index for each name the engine is configured with, on each list
\* sd.query_devices() can return
IndexOnList ==
    [l \in ListsUpTo(MaxDevices) |->
        [n \in InputNames \cup OutputNames |->
            [k \in {"input", "output"} |->
                _device_index(StrOf(n), k, [ok |-> TRUE, list |-> l])]]]

\* self._device_index(self._input_device or "", "input"), and the same for
\* the output device, on what sd.query_devices() does now
ConfiguredIndex(n, k, q) ==
    IF q.ok THEN IndexOnList[q.list][n][k] ELSE _device_index(StrOf(n), k, q)

\* the sd.query_devices() calls one _device_index call makes
Queries(name) == IF name = <<>> THEN 0 ELSE 1

\* mutant: the indices found when set_devices stored the names
StartBody_atconfig(m, o) ==
    LET q == [m EXCEPT !.index = last.at_config]
        c == Call(q, "Stream", m.nextId, o.Stream)
        h == [id |-> m.nextId, device |-> <<m.input_device, m.output_device>>]
    IN  IF c.exc
        THEN c
        ELSE Call([c EXCEPT !.stream = h, !.nextId = @ + 1], "start", h.id, o.start)

\* the try block of _start_stream: resolve the two configured names against
\* the device list as it is now, construct the stream on the indices found,
\* assign it to self._stream, then start() it
StartBody(m, o) ==
    LET in_name == StrOf(m.input_device)
        out_name == StrOf(m.output_device)
        q == [m EXCEPT !.queries = @ + Queries(in_name) + Queries(out_name),
                       !.index = <<ConfiguredIndex(m.input_device, "input", devs),
                                   ConfiguredIndex(m.output_device, "output", devs)>>]
        c == Call(q, "Stream", m.nextId, o.Stream)
        h == [id |-> m.nextId, device |-> <<m.input_device, m.output_device>>]
    IN  IF c.exc
        THEN c
        ELSE Call([c EXCEPT !.stream = h, !.nextId = @ + 1], "start", h.id, o.start)

\* mutant: no except clause around the try block
_start_stream_nocatch(m, o) == StartBody(m, o)

\* mutant: the except clause leaving the failed stream in self._stream
_start_stream_keep(m, o) == [StartBody(m, o) EXCEPT !.exc = FALSE]

\* _start_stream: on any exception print, and self._stream = None
_start_stream(m, o) ==
    LET r == StartBody(m, o)
    IN  IF r.exc THEN [r EXCEPT !.exc = FALSE, !.stream = NoStream] ELSE r

\* mutant: the threshold compared with >=
should_run_ge(m) == m.volume >= Eps /\ ~m.muted

\* mutant: the mute flag left out of the predicate
should_run_nomute(m) == m.volume > Eps

should_run(m) == m.volume > Eps /\ ~m.muted

\* mutant: the elif branch that stops the stream left out
_sync_stream_nostop(m, o) ==
    IF should_run(m) /\ m.stream = NoStream
    THEN _start_stream(m, o)
    ELSE m

\* mutant: the branch that starts the stream left out
_sync_stream_stoponly(m, o) ==
    IF ~should_run(m) /\ m.stream # NoStream
    THEN _stop_stream(m, o)
    ELSE m

_sync_stream(m, o) ==
    IF should_run(m) /\ m.stream = NoStream
    THEN _start_stream(m, o)
    ELSE IF ~should_run(m) /\ m.stream # NoStream
         THEN _stop_stream(m, o)
         ELSE m

\* mutant: the stream restarted whether or not a device changed
SetDevicesBody_always(m, changed, o) ==
    IF m.stream # NoStream
    THEN LET s == _stop_stream(m, o)
         IN  IF s.exc THEN s ELSE _sync_stream(s, o)
    ELSE m

\* mutant: the live stream kept across a device change
SetDevicesBody_inplace(m, changed, o) == _sync_stream(m, o)

\* the body of set_devices after the two stores
SetDevicesBody(m, changed, o) ==
    IF changed /\ m.stream # NoStream
    THEN LET s == _stop_stream(m, o)
         IN  IF s.exc THEN s ELSE _sync_stream(s, o)
    ELSE m

\* vol = 0.0 if self._muted else self._volume
CallbackVol(mu, vol) == IF mu THEN 0 ELSE vol

RECURSIVE SeqSum(_)
SeqSum(row) == IF row = <<>> THEN 0 ELSE Head(row) + SeqSum(Tail(row))

\* mutant: the first input channel taken for the mix
RowMean_first(row) == row[1]

\* indata.mean(axis=1, keepdims=True), for one frame
RowMean(row) == SeqSum(row) \div Len(row)

\* mono = indata.mean(axis=1, keepdims=True) * vol, broadcast to the shape
\* of outdata: frames rows of m channels; a product of a sample and a
\* volume is a fixed-point number of unit 1 / Unit
Mix(indata, vol, m) ==
    [f \in 1..Len(indata) |-> [c \in 1..m |-> RowMean(indata[f]) * vol]]

(* ------------------------------ script -------------------------------- *)

\* the calls of the scenario, in order
Scenario ==
    << [op |-> "set_monitor_volume", arg |-> <<(8 * Unit) \div 10>>],
       [op |-> "set_muted", arg |-> <<TRUE>>],
       [op |-> "set_muted", arg |-> <<FALSE>>],
       [op |-> "set_monitor_volume", arg |-> <<0>>] >>

Off == 0 - 1

\* script counts the calls made so far when they are exactly the first
\* calls of Scenario, made on the fresh engine; otherwise it is Off
Advance(op, arg) ==
    IF script # Off /\ script < Len(Scenario)
       /\ Scenario[script + 1].op = op /\ Scenario[script + 1].arg = arg
    THEN script + 1
    ELSE Off

(* ------------------------------ actions ------------------------------- *)

\* a construction or start of a stream raised in the calls logged in a
StartFailed(a) ==
    \E k \in 1..Len(a) : a[k].call \in {"Stream", "start"} /\ ~a[k].ok

\* the engine before a call: its fields, the previous call's name and
\* whether a stream start failed in it
Snapshot(prevOp) ==
    [volume |-> volume, muted |-> muted, input_device |-> input_device,
     output_device |-> output_device, stream |-> stream, op |-> prevOp,
     failed |-> StartFailed(api)]

\* the indices the stored names resolved to on the host's devices as they
\* were when set_devices stored them (at construction: no names)
AtConfig(op, arg) ==
    IF op = "set_devices"
    THEN <<_device_index(StrOf(arg[1]), "input", devs),
           _device_index(StrOf(arg[2]), "output", devs)>>
    ELSE last.at_config

\* with self._lock: entered by one public call
Enter(op, arg, changed) ==
    /\ pc = "idle"
    /\ pc' = op
    /\ last' = [op |-> op, arg |-> arg, changed |-> changed,
                at_config |-> AtConfig(op, arg)]
    /\ pre' = Snapshot(last.op)
    /\ api' = <<>>
    /\ raised' = FALSE
    /\ script' = Advance(op, arg)
    /\ opened' = [queries |-> 0, index |-> <<NoIndex, NoIndex>>]
    /\ UNCHANGED tvars
    /\ UNCHANGED dvars

\* the end of the with block: the fields as the body left them
Return(r) ==
    /\ pc' = "idle"
    /\ volume' = r.volume
    /\ muted' = r.muted
    /\ input_device' = r.input_device
    /\ output_device' = r.output_device
    /\ stream' = r.stream
    /\ nextId' = r.nextId
    /\ api' = r.api
    /\ raised' = r.exc
    /\ opened' = [queries |-> r.queries, index |-> r.index]
    /\ UNCHANGED <<last, pre, cb, script>>
    /\ UNCHANGED tvars
    /\ UNCHANGED dvars

set_monitor_volume_store(v) ==
    /\ nextId <= MaxStreams
    /\ Enter("set_monitor_volume", <<v>>, FALSE)
    /\ volume' = ClampVolume(v)
    /\ UNCHANGED <<muted, input_device, output_device, stream, nextId, cb>>

set_monitor_volume_sync(o) ==
    /\ pc = "set_monitor_volume"
    /\ Return(_sync_stream(Self, o))

set_muted_store(b) ==
    /\ nextId <= MaxStreams
    /\ Enter("set_muted", <<b>>, FALSE)
    /\ muted' = b
    /\ UNCHANGED <<volume, input_device, output_device, stream, nextId, cb>>

set_muted_sync(o) ==
    /\ pc = "set_muted"
    /\ Return(_sync_stream(Self, o))

\* mutant: the identifiers stored only when a stream exists
set_devices_store_guarded(i, d) ==
    /\ nextId <= MaxStreams
    /\ Enter("set_devices", <<i, d>>, input_device # i \/ output_device # d)
    /\ input_device' = IF stream # NoStream THEN i ELSE input_device
    /\ output_device' = IF stream # NoStream THEN d ELSE output_device
    /\ UNCHANGED <<volume, muted, stream, nextId, cb>>

set_devices_store(i, d) ==
    /\ nextId <= MaxStreams
    /\ Enter("set_devices", <<i, d>>, input_device # i \/ output_device # d)
    /\ input_device' = i
    /\ output_device' = d
    /\ UNCHANGED <<volume, muted, stream, nextId, cb>>

set_devices_sync(o) ==
    /\ pc = "set_devices"
    /\ Return(SetDevicesBody(Self, last.changed, o))

stop_enter ==
    /\ Enter("stop", <<>>, FALSE)
    /\ UNCHANGED <<volume, muted, input_device, output_device, stream, nextId, cb>>

\* mutant: stop() re-evaluating the run predicate after stopping
stop_body_resync(o) ==
    /\ pc = "stop"
    /\ Return(_sync_stream(_stop_stream(Self, o), o))

stop_body(o) ==
    /\ pc = "stop"
    /\ Return(_stop_stream(Self, o))

\* one invocation of the audio callback of the running stream
callback ==
    /\ stream # NoStream
    /\ cb' = [ran |-> TRUE, muted |-> muted, vol |-> CallbackVol(muted, volume)]
    /\ UNCHANGED <<volume, muted, input_device, output_device, stream, nextId,
                   pc, last, pre, api, raised, script, opened>>
    /\ UNCHANGED tvars
    /\ UNCHANGED dvars

\* one invocation of the audio callback of the running stream, on a buffer
\* indata and an output stream of m channels
callback_mix(indata, m) ==
    /\ stream # NoStream
    /\ cb' = [ran |-> TRUE, muted |-> muted, vol |-> CallbackVol(muted, volume)]
    /\ buf' = [indata |-> indata,
               outdata |-> Mix(indata, CallbackVol(muted, volume), m)]
    /\ UNCHANGED <<volume, muted, input_device, output_device, stream, nextId,
                   pc, last, pre, api, raised, script, opened, devs, res, conn,
                   player, config>>
    /\ UNCHANGED tvars

\* one call of _device_index on the device list as it is now
resolve(name, kind) ==
    /\ res' = [called |-> TRUE, name |-> name, kind |-> kind,
               index |-> _device_index(name, kind, devs)]
    /\ UNCHANGED <<volume, muted, input_device, output_device, stream, nextId,
                   devs, buf, conn, player, config>>
    /\ UNCHANGED hvars
    /\ UNCHANGED tvars

\* the host's devices change: one is plugged in, at the end of the list
host_plug(d) ==
    /\ Len(devs.list) < MaxDevices
    /\ devs' = [devs EXCEPT !.list = Append(@, d)]
    /\ UNCHANGED <<volume, muted, input_device, output_device, stream, nextId,
                   res, buf, conn, player, config>>
    /\ UNCHANGED hvars
    /\ UNCHANGED tvars

\* the device at position k is unplugged
host_unplug(k) ==
    /\ k <= Len(devs.list)
    /\ devs' = [devs EXCEPT !.list = SubSeq(@, 1, k - 1) \o SubSeq(@, k + 1, Len(@))]
    /\ UNCHANGED <<volume, muted, input_device, output_device, stream, nextId,
                   res, buf, conn, player, config>>
    /\ UNCHANGED hvars
    /\ UNCHANGED tvars

\* sd.query_devices() starts or stops raising
host_backend(ok) ==
    /\ devs.ok # ok
    /\ devs' = [devs EXCEPT !.ok = ok]
    /\ UNCHANGED <<volume, muted, input_device, output_device, stream, nextId,
                   res, buf, conn, player, config>>
    /\ UNCHANGED hvars
    /\ UNCHANGED tvars

(* ------------------------------ threads ------------------------------- *)

Threads == 1..NThreads

\* arguments the threads pass: the crossfader at rest and pushed up, the
\* default input and a named one
ThreadVolumes == {0, (8 * Unit) \div 10}

ThreadCalls ==
    {[op |-> "set_monitor_volume", arg |-> <<v>>] : v \in ThreadVolumes}
    \cup {[op |-> "set_muted", arg |-> <<b>>] : b \in BOOLEAN}
    \cup {[op |-> "set_devices", arg |-> <<i, None>>] : i \in InputNames}
    \cup {[op |-> "stop", arg |-> <<>>]}

NotCalling == [pc |-> "idle", op |-> "none", arg |-> <<>>, changed |-> FALSE]

\* the fields of the engine
Fields(m) ==
    [volume |-> m.volume, muted |-> m.muted, input_device |-> m.input_device,
     output_device |-> m.output_device, stream |-> m.stream, nextId |-> m.nextId]

EngineFields ==
    [volume |-> volume, muted |-> muted, input_device |-> input_device,
     output_device |-> output_device, stream |-> stream, nextId |-> nextId]

\* an engine with fields f at the start of an operation
Running(f) ==
    [volume |-> f.volume, muted |-> f.muted, input_device |-> f.input_device,
     output_device |-> f.output_device, stream |-> f.stream,
     nextId |-> f.nextId, api |-> <<>>, exc |-> FALSE,
     queries |-> 0, index |-> <<NoIndex, NoIndex>>]

\* the assignments a public operation makes before its stream calls
StoreOf(m, op, arg) ==
    CASE op = "set_monitor_volume" -> [m EXCEPT !.volume = ClampVolume(arg[1])]
      [] op = "set_muted" -> [m EXCEPT !.muted = arg[1]]
      [] op = "set_devices" ->
             [m EXCEPT !.input_device = arg[1], !.output_device = arg[2]]
      [] op = "stop" -> m

\* changed, as set_devices computes it before the two stores
ChangedOf(m, op, arg) ==
    op = "set_devices" /\ (m.input_device # arg[1] \/ m.output_device # arg[2])

\* the stream calls a public operation makes after its assignments
BodyOf(m, op, changed, o) ==
    CASE op \in {"set_monitor_volume", "set_muted"} -> _sync_stream(m, o)
      [] op = "set_devices" -> SetDevicesBody(m, changed, o)
      [] op = "stop" -> _stop_stream(m, o)

\* a whole public operation run on its own
RunCall(m, op, arg, o) ==
    BodyOf(StoreOf(m, op, arg), op, ChangedOf(m, op, arg), o)

\* the audio library's streams after the calls logged in a: a stream is
\* "open" once constructed, "active" once started, "stopped", "closed"; a
\* call that raises leaves the stream as it was
RECURSIVE ApplyApi(_, _)
ApplyApi(q, a) ==
    IF a = <<>>
    THEN q
    ELSE LET c == Head(a)
             q1 == IF ~c.ok THEN q
                   ELSE CASE c.call = "Stream" -> Append(q, "open")
                          [] c.call = "start" -> [q EXCEPT ![c.id] = "active"]
                          [] c.call = "stop" -> [q EXCEPT ![c.id] = "stopped"]
                          [] c.call = "close" -> [q EXCEPT ![c.id] = "closed"]
         IN  ApplyApi(q1, Tail(a))

\* streams constructed and neither stopped nor closed
Live == {i \in 1..Len(sd) : sd[i] \in {"open", "active"}}

\* calls in progress that may construct a stream
Starters == {t \in Threads : thr[t].pc # "idle" /\ thr[t].op # "stop"}

\* a thread calls a public operation and reaches its with self._lock
t_call(t, c) ==
    /\ thr[t].pc = "idle"
    /\ c.op # "stop" => nextId + Cardinality(Starters) <= MaxStreams
    /\ thr' = [thr EXCEPT ![t] = [pc |-> "acquire", op |-> c.op, arg |-> c.arg,
                                  changed |-> FALSE]]

\* mutant: a lock that does not exclude
t_acquire_noexclusion(t) ==
    /\ thr[t].pc = "acquire"
    /\ lock' = t
    /\ thr' = [thr EXCEPT ![t].pc = "store"]
    /\ UNCHANGED <<volume, muted, input_device, output_device, stream, nextId,
                   sd, rt, shadow, bridge>>
    /\ UNCHANGED hvars
    /\ UNCHANGED dvars

\* with self._lock: acquired
t_acquire(t) ==
    /\ thr[t].pc = "acquire"
    /\ lock = 0
    /\ lock' = t
    /\ thr' = [thr EXCEPT ![t].pc = "store"]
    /\ UNCHANGED <<volume, muted, input_device, output_device, stream, nextId,
                   sd, rt, shadow, bridge>>
    /\ UNCHANGED hvars
    /\ UNCHANGED dvars

\* mutant: the lock released after the assignments, before the stream calls
t_store_release(t) ==
    /\ thr[t].pc = "store"
    /\ LET m == StoreOf(Running(EngineFields), thr[t].op, thr[t].arg)
       IN  /\ volume' = m.volume
           /\ muted' = m.muted
           /\ input_device' = m.input_device
           /\ output_device' = m.output_device
           /\ rt' = IF rt.pc = "idle" THEN rt
                    ELSE [rt EXCEPT !.seen = @ \cup {<<m.muted, m.volume>>}]
    /\ thr' = [thr EXCEPT ![t].pc = "sync",
                          ![t].changed = ChangedOf(Running(EngineFields),
                                                   thr[t].op, thr[t].arg)]
    /\ lock' = 0
    /\ UNCHANGED <<stream, nextId, sd, shadow, bridge>>
    /\ UNCHANGED hvars
    /\ UNCHANGED dvars

\* the operation's assignments to the configuration
t_store(t) ==
    /\ thr[t].pc = "store"
    /\ LET m == StoreOf(Running(EngineFields), thr[t].op, thr[t].arg)
       IN  /\ volume' = m.volume
           /\ muted' = m.muted
           /\ input_device' = m.input_device
           /\ output_device' = m.output_device
           /\ rt' = IF rt.pc = "idle" THEN rt
                    ELSE [rt EXCEPT !.seen = @ \cup {<<m.muted, m.volume>>}]
    /\ thr' = [thr EXCEPT ![t].pc = "sync",
                          ![t].changed = ChangedOf(Running(EngineFields),
                                                   thr[t].op, thr[t].arg)]
    /\ UNCHANGED <<stream, nextId, lock, sd, shadow, bridge>>
    /\ UNCHANGED hvars
    /\ UNCHANGED dvars

\* Stream.stop() returns only when no callback of the stream is running
StopWaits(r, o) ==
    /\ rt.pc # "idle"
    /\ o.stop
    /\ \E k \in 1..Len(r.api) : r.api[k].call = "stop" /\ r.api[k].id = rt.id

\* the operation's stream calls, and the end of its with block
t_sync(t, o) ==
    /\ thr[t].pc = "sync"
    /\ LET r == BodyOf(Running(EngineFields), thr[t].op, thr[t].changed, o)
       IN  /\ ~StopWaits(r, o)
           /\ stream' = r.stream
           /\ nextId' = r.nextId
           /\ sd' = ApplyApi(sd, r.api)
    /\ shadow' = Fields(RunCall(Running(shadow), thr[t].op, thr[t].arg, o))
    /\ lock' = 0
    /\ thr' = [thr EXCEPT ![t] = NotCalling]
    /\ UNCHANGED <<volume, muted, input_device, output_device, rt, bridge>>
    /\ UNCHANGED hvars
    /\ UNCHANGED dvars

\* the audio thread enters the callback of an active stream and evaluates
\* self._muted: vol is 0.0 when it is set
cb_read_muted(i) ==
    /\ rt.pc = "idle"
    /\ sd[i] = "active"
    /\ rt' = [pc |-> IF muted THEN "idle" ELSE "read_volume", id |-> i,
              ran |-> TRUE, muted |-> muted, vol |-> 0,
              seen |-> {<<muted, volume>>}]
    /\ UNCHANGED <<volume, muted, input_device, output_device, stream, nextId,
                   lock, thr, sd, shadow, bridge>>
    /\ UNCHANGED hvars
    /\ UNCHANGED dvars

\* mutant: the callback taking self._lock for its second read
cb_read_volume_locked ==
    /\ rt.pc = "read_volume"
    /\ lock = 0
    /\ rt' = [rt EXCEPT !.pc = "idle", !.vol = CallbackVol(rt.muted, volume)]
    /\ UNCHANGED <<volume, muted, input_device, output_device, stream, nextId,
                   lock, thr, sd, shadow, bridge>>
    /\ UNCHANGED hvars
    /\ UNCHANGED dvars

\* the audio thread evaluates self._volume and writes the output
cb_read_volume ==
    /\ rt.pc = "read_volume"
    /\ rt' = [rt EXCEPT !.pc = "idle", !.vol = CallbackVol(rt.muted, volume)]
    /\ UNCHANGED <<volume, muted, input_device, output_device, stream, nextId,
                   lock, thr, sd, shadow, bridge>>
    /\ UNCHANGED hvars
    /\ UNCHANGED dvars

\* a thread calls a public operation on its own account
t_invoke(t, c) ==
    /\ t_call(t, c)
    /\ UNCHANGED <<volume, muted, input_device, output_device, stream, nextId,
                   lock, sd, rt, shadow, bridge>>
    /\ UNCHANGED hvars
    /\ UNCHANGED dvars

InitThreads ==
    /\ lock = 0
    /\ thr = [t \in Threads |-> NotCalling]
    /\ sd = <<>>
    /\ rt = [pc |-> "idle", id |-> 0, ran |-> FALSE, muted |-> FALSE, vol |-> 0,
             seen |-> {}]
    /\ shadow = [volume |-> 0, muted |-> FALSE, input_device |-> None,
                 output_device |-> None, stream |-> NoStream, nextId |-> 1]
    /\ bridge = [running |-> FALSE, controller |-> None, events |-> FALSE,
                 mic_muted |-> FALSE, stop |-> "idle", mic_volume |-> Unit,
                 sys_mic |-> 0 - 1, toggles |-> 0, last_fader |-> 0 - 1]

(* ------------------------------- bridge ------------------------------- *)

\* the thread that calls ControllerBridge.start() and stop()
GuiThread == 1

\* the controller's thread, which runs the event callbacks
ControllerThread == 2

BridgeFrame ==
    /\ UNCHANGED <<volume, muted, input_device, output_device, stream, nextId,
                   lock, sd, rt, shadow>>
    /\ UNCHANGED hvars
    /\ UNCHANGED dvars

\* ControllerBridge.start()
b_start ==
    /\ bridge.stop = "idle" /\ ~bridge.running
    /\ bridge' = [bridge EXCEPT !.running = TRUE]
    /\ UNCHANGED thr
    /\ BridgeFrame

\* _connect_loop: the controller constructed, its callbacks registered, and
\* started
b_connect ==
    /\ bridge.running /\ bridge.controller = None
    /\ bridge' = [bridge EXCEPT !.controller = "ctrl", !.events = TRUE]
    /\ UNCHANGED thr
    /\ BridgeFrame

\* on_crossfader: self._loopback.set_monitor_volume(event.value)
b_on_crossfader(v) ==
    /\ bridge.events
    /\ t_call(ControllerThread, [op |-> "set_monitor_volume", arg |-> <<v>>])
    /\ UNCHANGED bridge
    /\ BridgeFrame

\* system_control.set_mic_volume(value): the volume asked of the operating
\* system, value = max(0.0, min(1.0, value))
set_mic_volume(value) == PyMax(0, PyMin(Unit, value))

\* values of the mic fader's events
FaderValues == {0, (3 * Unit) \div 10, Unit}

\* mutant: the system volume set whether or not the mic is muted
b_on_mic_fader_always(v) ==
    /\ bridge.events /\ thr[ControllerThread].pc = "idle"
    /\ bridge' = [bridge EXCEPT !.mic_volume = v, !.last_fader = v,
                                !.sys_mic = set_mic_volume(v)]
    /\ UNCHANGED thr
    /\ BridgeFrame

\* on_ch_fader for an event of the configured mic fader, on the controller
\* thread: the value is remembered, and set unless the mic is muted
b_on_mic_fader(v) ==
    /\ bridge.events /\ thr[ControllerThread].pc = "idle"
    /\ bridge' = [bridge EXCEPT
                      !.mic_volume = v, !.last_fader = v,
                      !.sys_mic = IF ~bridge.mic_muted THEN set_mic_volume(v) ELSE @]
    /\ UNCHANGED thr
    /\ BridgeFrame

\* mutant: set_muted called with the flag as it was before the toggle
b_toggle_mic_mute_stale ==
    /\ bridge.events /\ bridge.toggles < MaxToggles
    /\ bridge' = [bridge EXCEPT
                      !.mic_muted = ~@, !.toggles = @ + 1,
                      !.sys_mic = IF ~bridge.mic_muted
                                  THEN set_mic_volume(0)
                                  ELSE set_mic_volume(bridge.mic_volume)]
    /\ t_call(ControllerThread, [op |-> "set_muted", arg |-> <<bridge.mic_muted>>])
    /\ BridgeFrame

\* _toggle_mic_mute, to its call of self._loopback.set_muted: the flag is
\* flipped, the system mic volume set to 0.0 or to the remembered volume
b_toggle_mic_mute ==
    /\ bridge.events /\ bridge.toggles < MaxToggles
    /\ bridge' = [bridge EXCEPT
                      !.mic_muted = ~@, !.toggles = @ + 1,
                      !.sys_mic = IF ~bridge.mic_muted
                                  THEN set_mic_volume(0)
                                  ELSE set_mic_volume(bridge.mic_volume)]
    /\ t_call(ControllerThread, [op |-> "set_muted", arg |-> <<~bridge.mic_muted>>])
    /\ BridgeFrame

\* ControllerBridge.stop(), to its call of self._loopback.stop()
b_stop_loopback ==
    /\ bridge.running /\ bridge.stop = "idle"
    /\ bridge' = [bridge EXCEPT !.running = FALSE, !.stop = "loopback"]
    /\ t_call(GuiThread, [op |-> "stop", arg |-> <<>>])
    /\ BridgeFrame

\* ControllerBridge.stop(), from the return of self._loopback.stop(): the
\* controller, if any, is stopped unless all_off() or stop() raises
b_stop_controller(ok) ==
    /\ bridge.stop = "loopback" /\ thr[GuiThread].pc = "idle"
    /\ bridge' = [bridge EXCEPT
                      !.events = IF bridge.controller # None /\ ok THEN FALSE ELSE @,
                      !.controller = None,
                      !.stop = "returned"]
    /\ UNCHANGED thr
    /\ BridgeFrame

(* -------------------------- connection loop --------------------------- *)

\* self._controller is None
NoController == 0

\* ControllerBridge.__init__: not running, no controller, not connected, no
\* loop thread; no flx4py.DDJFlx4 object constructed; the caller of start()
\* and stop() outside any call; no signal emitted; the controller plugged in
InitConn ==
    [running |-> FALSE, controller |-> NoController, connected |-> FALSE,
     threads |-> <<>>, objs |-> <<>>,
     gui |-> [pc |-> "idle", ctrl |-> NoController],
     emitted |-> [sig |-> "none", why |-> "none"],
     usb |-> TRUE]

\* the loop thread started by the i-th call of start()
LoopThreads == 1..Len(conn.threads)

\* the steps of the connection loop leave the loopback engine alone
LoopFrame ==
    /\ UNCHANGED <<volume, muted, input_device, output_device, stream, nextId,
                   devs, res, buf, player, config>>
    /\ UNCHANGED hvars
    /\ UNCHANGED tvars

\* the thread i at the statement at, where its code is
At(i, at) == i \in LoopThreads /\ conn.threads[i].pc = at

\* the controller's USB cable is pulled
usb_unplug ==
    /\ conn.usb
    /\ conn' = [conn EXCEPT !.usb = FALSE]
    /\ LoopFrame

\* the controller is plugged in again
usb_plug ==
    /\ ~conn.usb
    /\ conn' = [conn EXCEPT !.usb = TRUE]
    /\ LoopFrame

\* ControllerBridge.start(), called at startup and, by _reconnect's
\* _restart thread, a second after a stop(): self._running = True, and a new
\* thread that runs _connect_loop
ControllerBridge_start ==
    /\ conn.gui.pc = "idle" /\ ~conn.running
    /\ Len(conn.threads) < MaxLoops
    /\ conn' = [conn EXCEPT
                    !.running = TRUE,
                    !.threads = Append(@, [pc |-> "l99", was_connected |-> FALSE,
                                           ctrl |-> NoController, why |-> "none",
                                           emits |-> 0])]
    /\ LoopFrame

\* ControllerBridge.stop(): self._running = False, self._loopback.stop()
stop_running ==
    /\ conn.gui.pc = "idle" /\ conn.running
    /\ conn' = [conn EXCEPT !.running = FALSE, !.gui.pc = "l64"]
    /\ LoopFrame

\* ctrl = self._controller
stop_read ==
    /\ conn.gui.pc = "l64"
    /\ conn' = [conn EXCEPT !.gui.ctrl = conn.controller, !.gui.pc = "l66"]
    /\ LoopFrame

\* if ctrl: ctrl.leds.all_off(); ctrl.stop(), an exception of either passed
\* over
stop_controller(ok) ==
    /\ conn.gui.pc = "l66"
    /\ conn.gui.ctrl = NoController => ok
    /\ conn' = [conn EXCEPT
                    !.objs = IF conn.gui.ctrl # NoController /\ ok
                             THEN [@ EXCEPT ![conn.gui.ctrl] =
                                       [st |-> "stopped", by |-> "stop"]]
                             ELSE @,
                    !.gui = [pc |-> "l71", ctrl |-> NoController]]
    /\ LoopFrame

\* self._controller = None
stop_clear ==
    /\ conn.gui.pc = "l71"
    /\ conn' = [conn EXCEPT !.controller = NoController, !.gui.pc = "l72"]
    /\ LoopFrame

\* self._connected = False, and stop() returns
stop_disconnected ==
    /\ conn.gui.pc = "l72"
    /\ conn' = [conn EXCEPT !.connected = FALSE, !.gui.pc = "idle"]
    /\ LoopFrame

\* while self._running: was_connected = False, or the thread ends
loop_while(i) ==
    /\ At(i, "l99")
    /\ conn' = [conn EXCEPT
                    !.threads[i] = IF conn.running
                                   THEN [@ EXCEPT !.pc = "l103",
                                                  !.was_connected = FALSE]
                                   ELSE [@ EXCEPT !.pc = "exited"]]
    /\ LoopFrame

\* ctrl = flx4py.DDJFlx4(), which raises RuntimeError if the device is not
\* found
loop_construct(i) ==
    /\ At(i, "l103")
    /\ conn.usb => Len(conn.objs) < MaxControllers
    /\ conn' = IF conn.usb
               THEN [conn EXCEPT
                         !.objs = Append(@, [st |-> "new", by |-> "none"]),
                         !.threads[i].ctrl = Len(conn.objs) + 1,
                         !.threads[i].pc = "l104"]
               ELSE [conn EXCEPT !.threads[i].pc = "l135",
                                 !.threads[i].why = "error"]
    /\ LoopFrame

\* self._controller = ctrl
loop_publish(i) ==
    /\ At(i, "l104")
    /\ conn' = [conn EXCEPT !.controller = conn.threads[i].ctrl,
                            !.threads[i].pc = "l106"]
    /\ LoopFrame

\* self._setup_callbacks(ctrl); ctrl.start(), which may raise
loop_start(i, ok) ==
    /\ At(i, "l106")
    /\ ok => conn.usb
    /\ conn' = IF ok
               THEN [conn EXCEPT
                         !.objs[conn.threads[i].ctrl] =
                             [st |-> "started", by |-> "none"],
                         !.threads[i].pc = "l107"]
               ELSE [conn EXCEPT !.threads[i].pc = "l135",
                                 !.threads[i].why = "error"]
    /\ LoopFrame

\* self._connected = True; was_connected = True
loop_connected(i) ==
    /\ At(i, "l107")
    /\ conn' = [conn EXCEPT !.connected = TRUE,
                            !.threads[i].was_connected = TRUE,
                            !.threads[i].pc = "l109"]
    /\ LoopFrame

\* self.controller_connected.emit(); self._reset_leds()
loop_emit_connected(i) ==
    /\ At(i, "l109")
    /\ conn' = [conn EXCEPT
                    !.emitted = [sig |-> "controller_connected", why |-> "none"],
                    !.threads[i].pc = "l113"]
    /\ LoopFrame

\* while self._running: time.sleep(2), or on to the finally clause because
\* stop() was called
loop_heartbeat_while(i) ==
    /\ At(i, "l113")
    /\ conn' = IF conn.running
               THEN [conn EXCEPT !.threads[i].pc = "l114"]
               ELSE [conn EXCEPT !.threads[i].pc = "l135",
                                 !.threads[i].why = "stop"]
    /\ LoopFrame

\* the heartbeat ctrl.leds.set_button("BROWSE_PRESS", on=False): it raises
\* if the cable is out, it does not raise on a started controller that is
\* plugged in, and on a controller that was stopped it may do either; an
\* exception breaks out of the loop
loop_heartbeat(i, ok) ==
    /\ At(i, "l114")
    /\ ok => conn.usb
    /\ ~ok => ~conn.usb \/ conn.objs[conn.threads[i].ctrl].st # "started"
    /\ conn' = IF ok
               THEN [conn EXCEPT !.threads[i].pc = "l113"]
               ELSE [conn EXCEPT
                         !.threads[i].pc = "l135",
                         !.threads[i].why =
                             IF conn.usb THEN conn.objs[conn.threads[i].ctrl].by
                                         ELSE "usb"]
    /\ LoopFrame

\* finally: self._connected = False
loop_finally(i) ==
    /\ At(i, "l135")
    /\ conn' = [conn EXCEPT !.connected = FALSE, !.threads[i].pc = "l136"]
    /\ LoopFrame

\* ctrl = self._controller
loop_read(i) ==
    /\ At(i, "l136")
    /\ conn' = [conn EXCEPT !.threads[i].ctrl = conn.controller,
                            !.threads[i].pc = "l137"]
    /\ LoopFrame

\* if ctrl: ctrl.stop(), an exception passed over
loop_stop(i, ok) ==
    /\ At(i, "l137")
    /\ conn.threads[i].ctrl = NoController => ok
    /\ conn' = IF conn.threads[i].ctrl = NoController
               THEN [conn EXCEPT !.threads[i].pc = "l143"]
               ELSE [conn EXCEPT
                         !.objs[conn.threads[i].ctrl] =
                             IF ok THEN [st |-> "stopped", by |-> "loop"] ELSE @,
                         !.threads[i].pc = "l142"]
    /\ LoopFrame

\* self._controller = None
loop_clear(i) ==
    /\ At(i, "l142")
    /\ conn' = [conn EXCEPT !.controller = NoController,
                            !.threads[i].pc = "l143"]
    /\ LoopFrame

\* if was_connected and self._running: self.controller_disconnected.emit()
loop_emit_disconnected(i) ==
    /\ At(i, "l143")
    /\ conn' = IF conn.threads[i].was_connected /\ conn.running
               THEN [conn EXCEPT
                         !.emitted = [sig |-> "controller_disconnected",
                                      why |-> conn.threads[i].why],
                         !.threads[i] = [@ EXCEPT !.emits = @ + 1, !.pc = "l146",
                                                  !.why = "none",
                                                  !.ctrl = NoController]]
               ELSE [conn EXCEPT
                         !.threads[i] = [@ EXCEPT !.pc = "l146", !.why = "none",
                                                  !.ctrl = NoController]]
    /\ LoopFrame

\* if self._running: time.sleep(5), and back to the loop's test, where
\* was_connected is False again
loop_retry(i) ==
    /\ At(i, "l146")
    /\ conn' = [conn EXCEPT
                    !.threads[i] = [@ EXCEPT !.pc = "l99", !.emits = 0,
                                             !.was_connected = FALSE]]
    /\ LoopFrame

\* one step of the loop thread i
_connect_loop(i) ==
    \/ loop_while(i)
    \/ loop_construct(i)
    \/ loop_publish(i)
    \/ \E ok \in BOOLEAN : loop_start(i, ok)
    \/ loop_connected(i)
    \/ loop_emit_connected(i)
    \/ loop_heartbeat_while(i)
    \/ \E ok \in BOOLEAN : loop_heartbeat(i, ok)
    \/ loop_finally(i)
    \/ loop_read(i)
    \/ \E ok \in BOOLEAN : loop_stop(i, ok)
    \/ loop_clear(i)
    \/ loop_emit_disconnected(i)
    \/ loop_retry(i)

\* ControllerBridge.stop(), one statement at a time
ControllerBridge_stop ==
    \/ stop_running
    \/ stop_read
    \/ \E ok \in BOOLEAN : stop_controller(ok)
    \/ stop_clear
    \/ stop_disconnected

(* ---------------------------- audio player ---------------------------- *)

\* the threads that call play_sound: the controller's and the GUI's
Players == 1..NPlayers

\* a thread outside play_sound, with what its last call did
PlayerIdle ==
    [pc |-> "idle", saw_ready |-> FALSE, tried |-> FALSE, failed |-> FALSE,
     ready_at_fail |-> FALSE, played |-> FALSE, raised |-> FALSE]

\* the module as imported: _mixer_ready = False, _init_lock free, pygame
\* not initialised, no call made
InitPlayer ==
    [ready |-> FALSE, lock |-> 0, pygame |-> FALSE, inits |-> 0, fails |-> 0,
     calls |-> 0, thr |-> [t \in Players |-> PlayerIdle]]

\* the try block of _ensure_mixer runs to its end, or pygame.init(),
\* pygame.mixer.pre_init() or pygame.mixer.init() raises
InitOutcomes == {"ok", "pygame.init", "pre_init", "mixer.init"}

PlayerFrame ==
    /\ UNCHANGED <<volume, muted, input_device, output_device, stream, nextId,
                   devs, res, buf, conn, config>>
    /\ UNCHANGED hvars
    /\ UNCHANGED tvars

\* a thread calls play_sound(path), and _ensure_mixer from it
play_sound(t) ==
    /\ player.thr[t].pc = "idle"
    /\ player.calls < MaxPlays
    /\ player' = [player EXCEPT !.calls = @ + 1,
                                !.thr[t] = [PlayerIdle EXCEPT !.pc = "l13"]]
    /\ PlayerFrame

\* mutant: _ensure_mixer without the lock
ensure_acquire_nolock(t) ==
    /\ player.thr[t].pc = "l13"
    /\ player' = [player EXCEPT !.lock = t, !.thr[t].pc = "l14"]
    /\ PlayerFrame

\* with _init_lock: the lock is taken when it is free
ensure_acquire(t) ==
    /\ player.thr[t].pc = "l13"
    /\ player.lock = 0
    /\ player' = [player EXCEPT !.lock = t, !.thr[t].pc = "l14"]
    /\ PlayerFrame

\* if _mixer_ready: return True, which releases the lock
ensure_test(t) ==
    /\ player.thr[t].pc = "l14"
    /\ player' = IF player.ready
                 THEN [player EXCEPT !.lock = 0,
                                     !.thr[t].saw_ready = TRUE,
                                     !.thr[t].pc = "l36"]
                 ELSE [player EXCEPT !.thr[t].pc = "l17"]
    /\ PlayerFrame

\* the try block: pygame.init() unless pygame.get_init(), pre_init(),
\* pygame.mixer.init(); on an exception the except clause prints and
\* returns False, which releases the lock
ensure_init(t, o) ==
    /\ player.thr[t].pc = "l17"
    /\ o = "pygame.init" => ~player.pygame
    /\ player' = IF o = "ok"
                 THEN [player EXCEPT !.pygame = TRUE, !.inits = @ + 1,
                                     !.thr[t].tried = TRUE,
                                     !.thr[t].pc = "l23"]
                 ELSE [player EXCEPT
                           !.pygame = IF o = "pygame.init" THEN @ ELSE TRUE,
                           !.fails = @ + 1,
                           !.lock = 0,
                           !.thr[t] = [@ EXCEPT !.tried = TRUE, !.failed = TRUE,
                                                !.ready_at_fail = player.ready,
                                                !.pc = "l33"]]
    /\ PlayerFrame

\* _mixer_ready = True; return True, which releases the lock
ensure_set_ready(t) ==
    /\ player.thr[t].pc = "l23"
    /\ player' = [player EXCEPT !.ready = TRUE, !.lock = 0,
                                !.thr[t].pc = "l36"]
    /\ PlayerFrame

\* if not _ensure_mixer(): return
play_return(t) ==
    /\ player.thr[t].pc = "l33"
    /\ player' = [player EXCEPT !.thr[t].pc = "idle"]
    /\ PlayerFrame

\* pygame.mixer.Sound(str(path)) and sound.play(), an exception of either
\* printed and passed over
play(t, ok) ==
    /\ player.thr[t].pc = "l36"
    /\ player' = [player EXCEPT !.thr[t].played = ok, !.thr[t].pc = "idle"]
    /\ PlayerFrame

(* ------------------------------- config ------------------------------- *)

\* the decimal digits of str()
Digits == <<"0", "1", "2", "3", "4", "5", "6", "7", "8", "9">>

\* str(n) of an int
RECURSIVE Str(_)
Str(n) ==
    IF n < 0
    THEN "-" \o Str(0 - n)
    ELSE IF n < 10
         THEN Digits[n + 1]
         ELSE Str(n \div 10) \o Digits[(n % 10) + 1]

\* f"deck{deck}"
DeckKey(deck) == "deck" \o Str(deck)

\* the dict {}
EmptyDict == [k \in {} |-> 0]

\* d.get(k, default)
Get(d, k, default) == IF k \in DOMAIN d THEN d[k] ELSE default

\* d[k] = v
Put(d, k, v) == [x \in DOMAIN d \cup {k} |-> IF x = k THEN v ELSE d[x]]

\* d.pop(k, None)
Pop(d, k) == [x \in DOMAIN d \ {k} |-> d[x]]

\* d.setdefault(k, v), as the dict it leaves
SetDefault(d, k, v) == IF k \in DOMAIN d THEN d ELSE Put(d, k, v)

\* the action of a pad that has none
NoneAction == [type |-> "none"]

\* _DEFAULT_BANKS
DefaultBanks ==
    [dk \in {"deck1", "deck2"} |-> [b \in {"0", "1", "2", "3"} |-> EmptyDict]]

\* the bank keys str(i) for i in range(4)
RECURSIVE EnsureBanks(_, _)
EnsureBanks(deck_banks, i) ==
    IF i >= 4
    THEN deck_banks
    ELSE EnsureBanks(SetDefault(deck_banks, Str(i), EmptyDict), i + 1)

\* _ensure_bank_structure: banks, deck1 and deck2, and their banks 0 to 3
\* are there
_ensure_bank_structure(data) ==
    LET d0 == SetDefault(data, "banks", EmptyDict)
        b1 == SetDefault(d0["banks"], "deck1", EmptyDict)
        b2 == SetDefault(b1, "deck2", EmptyDict)
        banks == [dk \in DOMAIN b2 |->
                     IF dk \in {"deck1", "deck2"}
                     THEN EnsureBanks(b2[dk], 0)
                     ELSE b2[dk]]
    IN  Put(d0, "banks", banks)

\* get_pad_action on self._data = data
get_pad_action(data, deck, bank, pad) ==
    Get(Get(Get(Get(data, "banks", EmptyDict), DeckKey(deck), EmptyDict),
            Str(bank), EmptyDict),
        Str(pad), NoneAction)

\* mutant: the action stored whatever its type
set_pad_action_store(data, deck, bank, pad, action) ==
    LET d0 == SetDefault(data, "banks", EmptyDict)
        banks == SetDefault(d0["banks"], DeckKey(deck), EmptyDict)
        deck_banks == SetDefault(banks[DeckKey(deck)], Str(bank), EmptyDict)
        bank_pads == Put(deck_banks[Str(bank)], Str(pad), action)
    IN  Put(d0, "banks",
            Put(banks, DeckKey(deck), Put(deck_banks, Str(bank), bank_pads)))

\* set_pad_action, to its call of self.save(): self._data as it leaves it
set_pad_action(data, deck, bank, pad, action) ==
    LET d0 == SetDefault(data, "banks", EmptyDict)
        banks == SetDefault(d0["banks"], DeckKey(deck), EmptyDict)
        deck_banks == SetDefault(banks[DeckKey(deck)], Str(bank), EmptyDict)
        bank_pads == IF Get(action, "type", "none") = "none"
                     THEN Pop(deck_banks[Str(bank)], Str(pad))
                     ELSE Put(deck_banks[Str(bank)], Str(pad), action)
    IN  Put(d0, "banks",
            Put(banks, DeckKey(deck), Put(deck_banks, Str(bank), bank_pads)))

\* the decks, banks and pads of the calls: a deck and a bank that
\* _ensure_bank_structure makes and ones it does not
PadDecks == {1, 3}
PadBanks == {0, 4}
PadNumbers == {1, 10}
PadSlots == PadDecks \X PadBanks \X PadNumbers

\* the actions of the calls: two with a type, one of type "none", one
\* without a type
PadActions ==
    {[type |-> "sound", file |-> "a.wav"], [type |-> "mute_mic"],
     NoneAction, [file |-> "a.wav"]}

\* no pad action read since the last set_pad_action
NotRead == [called |-> FALSE, slot |-> <<1, 0, 1>>, value |-> NoneAction]

\* Config() on a fresh install: DEFAULT_CONFIG, saved, then
\* _ensure_bank_structure; no pad action set or read yet
InitConfig ==
    [data |-> _ensure_bank_structure([banks |-> DefaultBanks]),
     saved |-> TRUE, sets |-> 0, touched |-> {},
     set |-> [called |-> FALSE, slot |-> <<1, 0, 1>>, action |-> NoneAction,
              raised |-> FALSE],
     got |-> NotRead]

ConfigFrame ==
    /\ UNCHANGED <<volume, muted, input_device, output_device, stream, nextId,
                   devs, res, buf, conn, player>>
    /\ UNCHANGED hvars
    /\ UNCHANGED tvars

\* config.set_pad_action(deck, bank, pad, action): self._data changed, then
\* self.save(), which writes the file or raises
config_set_pad_action(slot, action, ok) ==
    /\ config.sets < MaxSets
    /\ config' = [config EXCEPT
                      !.data = set_pad_action(@, slot[1], slot[2], slot[3], action),
                      !.saved = ok,
                      !.sets = @ + 1,
                      !.touched = @ \cup {slot},
                      !.set = [called |-> TRUE, slot |-> slot, action |-> action,
                               raised |-> ~ok],
                      !.got = NotRead]
    /\ ConfigFrame

\* config.get_pad_action(deck, bank, pad)
config_get_pad_action(slot) ==
    /\ config' = [config EXCEPT
                      !.got = [called |-> TRUE, slot |-> slot,
                               value |-> get_pad_action(config.data, slot[1],
                                                        slot[2], slot[3])]]
    /\ ConfigFrame

(* --------------------------- specifications --------------------------- *)

\* MicLoopback.__init__
InitEngine ==
    /\ volume = 0
    /\ muted = FALSE
    /\ input_device = None
    /\ output_device = None
    /\ stream = NoStream
    /\ nextId = 1
    /\ pc = "idle"
    /\ last = [op |-> "__init__", arg |-> <<>>, changed |-> FALSE,
               at_config |-> <<NoIndex, NoIndex>>]
    /\ pre = [volume |-> 0, muted |-> FALSE, input_device |-> None,
              output_device |-> None, stream |-> NoStream, op |-> "__init__",
              failed |-> FALSE]
    /\ api = <<>>
    /\ raised = FALSE
    /\ cb = [ran |-> FALSE, muted |-> FALSE, vol |-> 0]
    /\ script = 0
    /\ opened = [queries |-> 0, index |-> <<NoIndex, NoIndex>>]
    /\ res = [called |-> FALSE, name |-> <<>>, kind |-> "input", index |-> NoIndex]
    /\ buf = [indata |-> <<>>, outdata |-> <<>>]
    /\ conn = InitConn
    /\ player = InitPlayer
    /\ config = InitConfig
    /\ InitThreads

\* a fresh engine on a host with speakers only
Init == InitEngine /\ devs = HostDevices

\* any calls, the audio library free to fail any call
Next ==
    \/ \E v \in VolumeInputs : set_monitor_volume_store(v)
    \/ \E o \in Outcomes : set_monitor_volume_sync(o)
    \/ \E b \in BOOLEAN : set_muted_store(b)
    \/ \E o \in Outcomes : set_muted_sync(o)
    \/ \E i \in InputNames, d \in OutputNames : set_devices_store(i, d)
    \/ \E o \in Outcomes : set_devices_sync(o)
    \/ stop_enter
    \/ \E o \in Outcomes : stop_body(o)
    \/ callback

Spec == Init /\ [][Next]_vars

\* any calls, every library call succeeding
NextOK ==
    \/ \E v \in VolumeInputs : set_monitor_volume_store(v)
    \/ set_monitor_volume_sync(AllOk)
    \/ \E b \in BOOLEAN : set_muted_store(b)
    \/ set_muted_sync(AllOk)
    \/ \E i \in InputNames, d \in OutputNames : set_devices_store(i, d)
    \/ set_devices_sync(AllOk)
    \/ stop_enter
    \/ stop_body(AllOk)
    \/ callback

SpecOK == Init /\ [][NextOK]_vars

\* only set_monitor_volume and set_muted calls, every stream start succeeding
NextVolMute ==
    \/ \E v \in VolumeInputs : set_monitor_volume_store(v)
    \/ \E o \in StartOk : set_monitor_volume_sync(o)
    \/ \E b \in BOOLEAN : set_muted_store(b)
    \/ \E o \in StartOk : set_muted_sync(o)
    \/ callback

SpecVolMute == Init /\ [][NextVolMute]_vars

\* _device_index on any name, kind and device list
InitResolve == InitEngine /\ devs \in DeviceQueries

NextResolve == \E n \in ResolveNames, k \in {"input", "output"} : resolve(n, k)

SpecResolve == InitResolve /\ [][NextResolve]_vars

\* set_monitor_volume and set_muted calls, every library call succeeding,
\* and the callback on any buffer and any number of output channels
NextMix ==
    \/ \E v \in ThreadVolumes : set_monitor_volume_store(v)
    \/ set_monitor_volume_sync(AllOk)
    \/ \E b \in BOOLEAN : set_muted_store(b)
    \/ set_muted_sync(AllOk)
    \/ \E indata \in Buffers, m \in 1..MaxOutChannels : callback_mix(indata, m)

SpecMix == Init /\ [][NextMix]_vars

\* devices plugged into the host over time
HotPlugged == {UsbMicIn}

\* one caller and a host whose devices come and go, every stream call
\* succeeding
NextDevices ==
    \/ \E v \in ThreadVolumes : set_monitor_volume_store(v)
    \/ set_monitor_volume_sync(AllOk)
    \/ \E b \in BOOLEAN : set_muted_store(b)
    \/ set_muted_sync(AllOk)
    \/ \E i \in InputNames, d \in OutputNames : set_devices_store(i, d)
    \/ set_devices_sync(AllOk)
    \/ stop_enter
    \/ stop_body(AllOk)
    \/ \E d \in HotPlugged : host_plug(d)
    \/ \E k \in 1..MaxDevices : host_unplug(k)
    \/ \E ok \in BOOLEAN : host_backend(ok)

SpecDevices == Init /\ [][NextDevices]_vars

\* threads calling the public operations, the audio thread running the
\* callback, the audio library free to fail any call
NextThreads ==
    \/ \E t \in Threads, c \in ThreadCalls : t_invoke(t, c)
    \/ \E t \in Threads : t_acquire(t)
    \/ \E t \in Threads : t_store(t)
    \/ \E t \in Threads, o \in Outcomes : t_sync(t, o)
    \/ \E i \in 1..Len(sd) : cb_read_muted(i)
    \/ cb_read_volume

SpecThreads == Init /\ [][NextThreads]_vars

\* the same, every library call succeeding
NextThreadsOK ==
    \/ \E t \in Threads, c \in ThreadCalls : t_invoke(t, c)
    \/ \E t \in Threads : t_acquire(t)
    \/ \E t \in Threads : t_store(t)
    \/ \E t \in Threads : t_sync(t, AllOk)
    \/ \E i \in 1..Len(sd) : cb_read_muted(i)
    \/ cb_read_volume

SpecThreadsOK == Init /\ [][NextThreadsOK]_vars

\* the fairness of the threads: a thread waiting for the lock gets it when
\* it is free again and again, a thread or callback that can run does, and
\* stream calls that can return again and again (a stop between two
\* callback invocations) do return; whether they raise is left open
ThreadsFair ==
    /\ \A t \in Threads : SF_vars(t_acquire(t))
    /\ \A t \in Threads : WF_vars(t_store(t))
    /\ \A t \in Threads : SF_vars(t_sync(t, AllOk))
    /\ WF_vars(cb_read_volume)

\* the threads of NextThreads with at most FairStreams streams constructed
NextThreadsFair ==
    \/ \E t \in Threads, c \in ThreadCalls :
           /\ c.op # "stop" => nextId + Cardinality(Starters) <= FairStreams
           /\ t_invoke(t, c)
    \/ \E t \in Threads : t_acquire(t)
    \/ \E t \in Threads : t_store(t)
    \/ \E t \in Threads, o \in Outcomes : t_sync(t, o)
    \/ \E i \in 1..Len(sd) : cb_read_muted(i)
    \/ cb_read_volume

SpecThreadsFair == Init /\ [][NextThreadsFair]_vars /\ ThreadsFair

\* the application: the GUI thread starts and stops the bridge, the
\* controller thread delivers crossfader and mute-pad events, every library
\* call succeeding
NextBridge ==
    \/ b_start
    \/ b_connect
    \/ \E v \in ThreadVolumes : b_on_crossfader(v)
    \/ b_toggle_mic_mute
    \/ b_stop_loopback
    \/ \E ok \in BOOLEAN : b_stop_controller(ok)
    \/ \E t \in Threads : t_acquire(t)
    \/ \E t \in Threads : t_store(t)
    \/ \E t \in Threads : t_sync(t, AllOk)
    \/ \E i \in 1..Len(sd) : cb_read_muted(i)
    \/ cb_read_volume

SpecBridge == Init /\ [][NextBridge]_vars

\* the same with the events of the mic fader
NextMic ==
    \/ NextBridge
    \/ \E v \in FaderValues : b_on_mic_fader(v)

SpecMic == Init /\ [][NextMic]_vars

\* the bridge started, stopped and started again as MainWindow._reconnect
\* does, its loop threads, and the controller's cable
NextLoop ==
    \/ ControllerBridge_start
    \/ ControllerBridge_stop
    \/ \E i \in 1..MaxLoops : _connect_loop(i)
    \/ usb_unplug
    \/ usb_plug

SpecLoop == Init /\ [][NextLoop]_vars

\* play_sound called from several threads, the mixer's initialisation and
\* the playback free to fail
NextPlayer ==
    \/ \E t \in Players : play_sound(t)
    \/ \E t \in Players : ensure_acquire(t)
    \/ \E t \in Players : ensure_test(t)
    \/ \E t \in Players, o \in InitOutcomes : ensure_init(t, o)
    \/ \E t \in Players : ensure_set_ready(t)
    \/ \E t \in Players : play_return(t)
    \/ \E t \in Players, ok \in BOOLEAN : play(t, ok)

SpecPlayer == Init /\ [][NextPlayer]_vars

\* pad actions set and read
NextConfig ==
    \/ \E slot \in PadSlots, action \in PadActions, ok \in BOOLEAN :
           config_set_pad_action(slot, action, ok)
    \/ \E slot \in PadSlots : config_get_pad_action(slot)

SpecConfig == Init /\ [][NextConfig]_vars

(* ------------------------------ claims -------------------------------- *)

\* a public call has returned
Returned(op) == pc = "idle" /\ last.op = op

\* the call changed a device: an argument differs from the stored identifier
DeviceChanged == pre.input_device # last.arg[1] \/ pre.output_device # last.arg[2]

\* clamp(v, 0.0, 1.0)
Clamp01(v) == IF v < 0 THEN 0 ELSE IF v > Unit THEN Unit ELSE v

SameVolume == volume = pre.volume

SameMuted == muted = pre.muted

SameDevices == input_device = pre.input_device /\ output_device = pre.output_device

\* C1: with every stream start succeeding, after any sequence of
\* set_monitor_volume and set_muted calls on a fresh engine, on return from
\* each call a stream exists iff the stored volume is > 0.001 and muted is
\* false.  (Checked under SpecVolMute.)
C1_StreamIffRunPredicate ==
    pc = "idle" => ((stream # NoStream) <=> (volume > Eps /\ ~muted))

\* an unmute with the volume above the threshold has started a stream
C1_Witness ==
    /\ Returned("set_muted")
    /\ pre.muted /\ ~muted /\ volume > Eps
    /\ pre.stream = NoStream /\ stream # NoStream

\* C2: set_monitor_volume stores clamp(volume, 0.0, 1.0) for every input,
\* and the stored volume lies in [0.0, 1.0] in every reachable state.
C2_VolumeClamped ==
    /\ volume >= 0 /\ volume <= Unit
    /\ last.op = "set_monitor_volume" =>
           volume = Clamp01(last.arg[1])

\* a call with an argument above 1.0 has returned
C2_Witness ==
    Returned("set_monitor_volume") /\ last.arg[1] > Unit /\ volume = Unit

\* C3: the scenario step by step, every library call succeeding: fresh
\* engine STOPPED with volume 0; set_monitor_volume(0.8) RUNNING;
\* set_muted(true) STOPPED; set_muted(false) RUNNING with volume still 0.8;
\* set_monitor_volume(0.0) STOPPED.  (Checked under SpecOK.)
C3_Scenario ==
    pc = "idle" =>
        /\ script = 0 => stream = NoStream /\ volume = 0
        /\ script = 1 => stream # NoStream /\ pre.stream = NoStream
        /\ script = 2 => stream = NoStream /\ pre.stream # NoStream
        /\ script = 3 => /\ stream # NoStream /\ pre.stream = NoStream
                         /\ volume = (8 * Unit) \div 10
        /\ script = 4 => stream = NoStream /\ pre.stream # NoStream

\* the last call of the scenario has returned
C3_Witness == pc = "idle" /\ script = Len(Scenario)

\* C4: mute overrides volume: no stream exists on return while muted is true,
\* whatever the volume, so set_muted(true) on a RUNNING engine with volume
\* 1.0 stops the stream; and a callback that reads muted = true computes the
\* gain 0.0.
C4_MuteOverridesVolume ==
    /\ pc = "idle" /\ muted => stream = NoStream
    /\ cb.ran /\ cb.muted => cb.vol = 0

\* set_muted(true) has returned on an engine that was RUNNING at volume 1.0,
\* and a callback ran after the flag was stored
C4_Witness ==
    /\ Returned("set_muted") /\ last.arg[1]
    /\ pre.stream # NoStream /\ pre.volume = Unit /\ volume = Unit
    /\ stream = NoStream
    /\ cb.ran /\ cb.muted

\* C5: stop() is idempotent: a stop() directly after a stop() leaves the
\* state the first one left (no stream, same volume, muted and devices),
\* does not raise and issues no call to the audio library.
C5_StopIdempotent ==
    Returned("stop") /\ pre.op = "stop" =>
        /\ pre.stream = NoStream /\ stream = NoStream
        /\ SameVolume /\ SameMuted /\ SameDevices
        /\ api = <<>>
        /\ ~raised

\* the second of two stop() calls has returned, the run predicate being true
C5_Witness ==
    Returned("stop") /\ pre.op = "stop" /\ volume > Eps /\ ~muted

\* C6: stop() leaves no stream handle and changes nothing else: volume,
\* muted and both devices are as they were before it.
C6_StopFrame ==
    Returned("stop") =>
        stream = NoStream /\ SameVolume /\ SameMuted /\ SameDevices

\* stop() has returned on an engine that was RUNNING on named devices
C6_Witness ==
    /\ Returned("stop") /\ pre.stream # NoStream
    /\ input_device # None /\ output_device # None

\* C7: set_devices(X, Y) with (X, Y) already stored performs no stream stop
\* and no stream start, and a running stream is the same handle afterwards.
C7_SetDevicesNoOp ==
    Returned("set_devices") /\ ~DeviceChanged =>
        api = <<>> /\ stream = pre.stream

\* set_devices with the stored identifiers has returned on a RUNNING engine
C7_Witness ==
    /\ Returned("set_devices") /\ ~DeviceChanged
    /\ stream # NoStream /\ input_device # None

C9_SetDevicesReevaluates ==
    /\ Returned("set_devices") /\ DeviceChanged
    /\ \A k \in 1..Len(api) : api[k].ok
    => ((stream # NoStream) <=> (volume > Eps /\ ~muted))

\* C10: when constructing or starting the stream fails during a set_* call,
\* the call does not raise, the stored configuration is the one the call
\* set, and the engine has no stream handle.
C10_StartFailureNonFatal ==
    /\ pc = "idle"
    /\ \E k \in 1..Len(api) : api[k].call \in {"Stream", "start"} /\ ~api[k].ok
    => /\ ~raised
       /\ stream = NoStream
       /\ last.op = "set_monitor_volume" =>
              /\ volume = Clamp01(last.arg[1])
              /\ SameMuted /\ SameDevices
       /\ last.op = "set_muted" =>
              muted = last.arg[1] /\ SameVolume /\ SameDevices
       /\ last.op = "set_devices" =>
              /\ input_device = last.arg[1] /\ output_device = last.arg[2]
              /\ SameVolume /\ SameMuted

\* start() raised on a constructed stream during a changing set_devices
C10_Witness ==
    /\ Returned("set_devices")
    /\ \E k \in 1..Len(api) : api[k].call = "start" /\ ~api[k].ok
    /\ pre.stream # NoStream

\* the sounddevice calls of the last call all returned
ApiOk == \A k \in 1..Len(api) : api[k].ok

\* C11: after a call in which a stream start failed, the next
\* set_monitor_volume or set_muted call that leaves the run predicate true
\* attempts a start again, and if that attempt succeeds the engine is RUNNING
\* on the stream it started.
C11_StartRetried ==
    /\ pc = "idle" /\ last.op \in {"set_monitor_volume", "set_muted"}
    /\ pre.failed
    /\ volume > Eps /\ ~muted
    => /\ pre.stream = NoStream
       /\ Len(api) >= 1 /\ api[1].call = "Stream"
       /\ ApiOk => /\ stream # NoStream
                   /\ api = << [call |-> "Stream", id |-> stream.id, ok |-> TRUE],
                               [call |-> "start", id |-> stream.id, ok |-> TRUE] >>

\* a set_muted(false) after a failed start has started a stream
C11_Witness ==
    /\ Returned("set_muted") /\ pre.failed /\ volume > Eps /\ ~muted
    /\ stream # NoStream

\* C12 as stated: no call raises, and when stop() or close() of the audio
\* library raises the call ends with no stream handle.
C12_NoRaise_NoHandle ==
    /\ ~raised
    /\ pc = "idle" /\ (\E k \in 1..Len(api) :
                          api[k].call \in {"stop", "close"} /\ ~api[k].ok)
       => stream = NoStream

\* C12 (amended): no call raises, and when stop() or close() raises the
\* call ends without the handle whose teardown raised: with no handle after
\* set_monitor_volume, set_muted and stop(), and after set_devices with no
\* handle or with a newly constructed one.
C12_NoRaise_HandleDropped ==
    /\ ~raised
    /\ pc = "idle" /\ (\E k \in 1..Len(api) :
                          api[k].call \in {"stop", "close"} /\ ~api[k].ok)
       => /\ stream.id # pre.stream.id
          /\ last.op # "set_devices" => stream = NoStream

\* stop() of the library raised during the engine's stop()
C12_Witness ==
    /\ Returned("stop") /\ Len(api) = 1 /\ ~api[1].ok
    /\ pre.stream # NoStream /\ stream = NoStream

\* C19: the initial state is STOPPED with volume 0, muted false and default
\* devices; STOPPED becomes RUNNING only in a call after which the run
\* predicate is true and whose start succeeded; RUNNING becomes STOPPED only
\* by a call that makes the predicate false, by stop(), or by the stop half
\* of a device-change restart.
C19_LegalTransitions ==
    /\ last.op = "__init__" =>
           /\ stream = NoStream /\ volume = 0 /\ ~muted
           /\ input_device = None /\ output_device = None
    /\ pc = "idle" /\ pre.stream = NoStream /\ stream # NoStream =>
           /\ volume > Eps /\ ~muted
           /\ api = << [call |-> "Stream", id |-> stream.id, ok |-> TRUE],
                       [call |-> "start", id |-> stream.id, ok |-> TRUE] >>
    /\ pc = "idle" /\ pre.stream # NoStream /\ stream = NoStream =>
           \/ ~(volume > Eps /\ ~muted)
           \/ last.op = "stop"
           \/ last.op = "set_devices" /\ DeviceChanged
    /\ pc # "idle" => stream = pre.stream

\* a device-change restart whose start failed has left the engine STOPPED
\* with the run predicate true
C19_Witness ==
    /\ Returned("set_devices") /\ DeviceChanged
    /\ pre.stream # NoStream /\ stream = NoStream
    /\ volume > Eps /\ ~muted

\* C13: at most one stream is opened and not yet stopped or closed, in
\* every reachable state, under any interleaving of concurrent calls.
C13_AtMostOneLiveStream == Cardinality(Live) <= 1

\* C14: whenever the lock is free the engine's fields are those that the
\* completed calls produce run one at a time in the order they completed
\* (each thread's calls in its own order); a call that has taken the lock
\* finds that state, and no other call is between its assignments and its
\* re-evaluation of the run predicate.
C14_Linearizable ==
    /\ lock = 0 => EngineFields = shadow
    /\ \A t \in Threads :
           /\ thr[t].pc = "store" => EngineFields = shadow
           /\ thr[t].pc \in {"store", "sync"} =>
                  \A u \in Threads \ {t} : thr[u].pc \notin {"store", "sync"}

\* two threads' calls have completed one after the other, the second one
\* restarting the stream, while the other thread waits for the lock again
C14_Witness ==
    /\ lock = 0 /\ nextId = 3 /\ stream # NoStream
    /\ \E t \in Threads : thr[t].pc = "acquire"

\* C15: every step that writes monitor_volume, muted, input_device,
\* output_device or stream_handle is taken by the thread holding the lock,
\* and a thread between acquiring the lock and the end of its stream calls
\* holds it throughout.
C15_WritesUnderLock ==
    /\ [](\A t \in Threads : thr[t].pc \in {"store", "sync"} => lock = t)
    /\ [][EngineFields' # EngineFields =>
              /\ lock # 0
              /\ thr[lock].pc \in {"store", "sync"}
              /\ thr'[lock] # thr[lock]
              /\ \A u \in Threads \ {lock} : thr'[u] = thr[u]]_vars

\* a thread holds the lock after its assignment, before its stream calls,
\* while another thread waits for the lock
C15_Witness ==
    \E t \in Threads, u \in Threads :
        /\ thr[t].pc = "sync" /\ thr[t].op = "set_muted" /\ lock = t
        /\ thr[u].pc = "acquire"

\* C16: the (muted, volume) pair a callback invocation used was the stored
\* configuration at one instant during the invocation.
C16_ConsistentSnapshot ==
    rt.ran /\ rt.pc = "idle" =>
        \E c \in rt.seen : c[1] = rt.muted /\ (rt.muted \/ c[2] = rt.vol)

\* C17: a callback step leaves the stream handle, the library's streams and
\* the lock alone, and a callback can take its next step whoever holds the
\* lock.
C17_CallbackLockFree ==
    /\ [](rt.pc = "read_volume" => ENABLED cb_read_volume)
    /\ [](\A i \in 1..Len(sd) :
              rt.pc = "idle" /\ sd[i] = "active" => ENABLED cb_read_muted(i))
    /\ [][rt' # rt /\ thr' = thr =>
              UNCHANGED <<stream, nextId, sd, lock>>]_vars

\* a callback is between its two reads while a thread holds the lock, about
\* to stop the callback's stream
C17_Witness ==
    /\ rt.pc = "read_volume" /\ lock # 0
    /\ thr[lock].pc = "sync" /\ thr[lock].op = "stop"
    /\ stream.id = rt.id

\* C18: under fair scheduling every stop() call and every set_* call
\* returns, whatever callback is in flight and whoever contends for the
\* lock.
C18_CallsReturn ==
    \A t \in Threads : (thr[t].pc # "idle") ~> (thr[t].pc = "idle")

\* a stop() waits for the lock, held by a thread whose stream stop waits
\* for the callback in flight
C18_Witness ==
    \E t \in Threads :
        /\ thr[t].pc = "acquire" /\ thr[t].op = "stop"
        /\ lock # 0 /\ lock # t /\ thr[lock].pc = "sync"
        /\ rt.pc = "read_volume" /\ rt.id = stream.id
        /\ ~(volume > Eps /\ ~muted)

\* C20: once ControllerBridge.stop() has returned the loopback engine has
\* no live stream.
C20_NoStreamAfterBridgeStop ==
    bridge.stop = "returned" => stream = NoStream /\ Live = {}

\* positions of the devices whose name contains the name asked for, letter
\* case apart, and that have a channel of the kind asked for
C21_Hits ==
    {k \in 1..Len(devs.list) :
        LET d == devs.list[k]
        IN  /\ \E i \in 0..(Len(d.name) - Len(res.name)) :
                   \A j \in 1..Len(res.name) :
                       Lower(d.name[i + j]) = Lower(res.name[j])
            /\ IF res.kind = "input"
               THEN d.max_input_channels >= 1
               ELSE d.max_output_channels >= 1}

\* C21: _device_index returns the position (from 0) of the first device in
\* enumeration order whose name contains the configured name
\* case-insensitively and that has a channel of the requested kind; it
\* returns None when the name is empty, when no device qualifies and when
\* the enumeration raises.
C21_DeviceResolution ==
    res.called =>
        IF res.name = <<>> \/ ~devs.ok \/ C21_Hits = {}
        THEN res.index = NoIndex
        ELSE /\ res.index + 1 \in C21_Hits
             /\ \A k \in C21_Hits : k >= res.index + 1

\* MIC asked for as an input: the first device matches by name but has no
\* input channel, the second is returned, the third would qualify too
C21_Witness ==
    /\ res.called /\ res.name = <<"M", "I", "C">> /\ res.kind = "input"
    /\ devs.ok /\ devs.list = <<UsbMicOut, WebcamMic, UsbMicIn>>
    /\ res.index = 1

\* C22: a call that constructs a stream opens the indices its stored names
\* resolve to on the host's devices as they are at that step, whatever they
\* were when set_devices stored the names; and a set_devices call on a
\* STOPPED engine whose run predicate is false enumerates no devices and
\* issues no stream call.
C22_ResolvedAtStart ==
    /\ [][(/\ pc # "idle" /\ pc' = "idle"
           /\ \E k \in 1..Len(api') : api'[k].call = "Stream")
          => opened'.index =
                 <<_device_index(StrOf(input_device'), "input", devs),
                   _device_index(StrOf(output_device'), "output", devs)>>]_vars
    /\ [](Returned("set_devices") /\ pre.stream = NoStream
            /\ ~(volume > Eps /\ ~muted)
          => opened.queries = 0 /\ api = <<>>)

\* the USB microphone was not on the host when set_devices stored its name,
\* and the start made by the next call opened it at position 1
C22_Witness ==
    /\ Returned("set_monitor_volume") /\ pre.op = "set_devices"
    /\ input_device = "USB Mic" /\ last.at_config[1] = NoIndex
    /\ pre.stream = NoStream /\ stream # NoStream
    /\ opened.queries = 1 /\ opened.index[1] = 1

\* C23: for every input buffer of N >= 1 channels and every number M >= 1 of
\* output channels, the callback writes to every output channel of each
\* frame gain * mean(the frame's input channels), the gain being 0.0 when
\* muted and the monitor volume otherwise.  (N * output = gain * sum.)
C23_MonoDownmix ==
    [][buf' # buf =>
          /\ Len(buf'.outdata) = Len(buf'.indata)
          /\ \A f \in 1..Len(buf'.indata) :
                 /\ Len(buf'.outdata[f]) >= 1
                 /\ \A c \in 1..Len(buf'.outdata[f]) :
                        Len(buf'.indata[f]) * buf'.outdata[f][c]
                            = (IF muted THEN 0 ELSE volume)
                                  * SeqSum(buf'.indata[f])]_vars

\* three input channels, not all equal, mixed to two output channels at
\* volume 0.8, two frames that differ
C23_Witness ==
    /\ cb.ran /\ ~cb.muted /\ cb.vol = (8 * Unit) \div 10
    /\ Len(buf.indata) = 2 /\ Len(buf.indata[1]) = 3 /\ Len(buf.outdata[1]) = 2
    /\ buf.indata[1][1] # buf.indata[1][2] /\ buf.indata[1][2] = buf.indata[1][3]
    /\ buf.outdata[2][2] # buf.outdata[1][2] /\ buf.outdata[2][2] # 0

\* C24: no stream is leaked: whenever no call is in progress, every stream
\* the engine constructed and no longer refers to has been closed, also
\* after a start() that raised on a constructed stream and after a stop()
\* that raised before close().
C24_NoLeak ==
    lock = 0 =>
        \A i \in 1..Len(sd) : i # stream.id => sd[i] = "closed"

\* C25: each setter changes only its own configuration: during and after
\* set_monitor_volume muted and both devices are as before the call; during
\* and after set_muted the volume and both devices are; during and after
\* set_devices the volume and muted are, and the two identifiers stored are
\* the ones given, whether or not a stream exists.
C25_SetterFrame ==
    /\ last.op = "set_monitor_volume" => SameMuted /\ SameDevices
    /\ last.op = "set_muted" => SameVolume /\ SameDevices
    /\ last.op = "set_devices" =>
           /\ SameVolume /\ SameMuted
           /\ input_device = last.arg[1] /\ output_device = last.arg[2]

\* set_devices has returned with new identifiers on an engine without a
\* stream, muted at volume 0.8
C25_Witness ==
    /\ Returned("set_devices") /\ DeviceChanged
    /\ pre.stream = NoStream /\ stream = NoStream
    /\ muted /\ volume = (8 * Unit) \div 10
    /\ input_device = "USB Mic" /\ output_device = "Speakers"

\* C26: stop() is not latched: the engine is STOPPED on return from stop()
\* and still STOPPED when the next call takes the lock, whatever the run
\* predicate; and when that call is a set_monitor_volume or set_muted that
\* leaves the predicate true and the library succeeds, it returns RUNNING
\* on a stream it constructed and started.
C26_StopNotLatched ==
    /\ Returned("stop") => stream = NoStream
    /\ pre.op = "stop" => pre.stream = NoStream
    /\ (/\ pc = "idle" /\ pre.op = "stop"
        /\ last.op \in {"set_monitor_volume", "set_muted"}
        /\ volume > Eps /\ ~muted /\ ApiOk)
       => /\ stream # NoStream
          /\ api = << [call |-> "Stream", id |-> stream.id, ok |-> TRUE],
                      [call |-> "start", id |-> stream.id, ok |-> TRUE] >>

\* stop() was called on a RUNNING engine at volume 0.8, and the
\* set_monitor_volume(1.0) after it has started a second stream
C26_Witness ==
    /\ Returned("set_monitor_volume") /\ pre.op = "stop"
    /\ pre.volume = (8 * Unit) \div 10 /\ ~pre.muted
    /\ volume = Unit /\ stream.id = 2

\* C27: whenever the controller thread is not inside a call of the engine
\* (every _toggle_mic_mute begun has completed), MicLoopback's muted flag
\* equals ControllerBridge._mic_muted, both are true iff the number of
\* toggles is odd, and the engine has no stream while the bridge reports the
\* mic muted.
C27_MuteFlagsAgree ==
    thr[ControllerThread].pc = "idle" =>
        /\ muted = bridge.mic_muted
        /\ bridge.mic_muted <=> bridge.toggles % 2 = 1
        /\ bridge.mic_muted => stream = NoStream

\* the third toggle has completed and stopped the stream that the second
\* one had started at crossfader volume 0.8
C27_Witness ==
    /\ thr[ControllerThread].pc = "idle" /\ bridge.toggles = 3
    /\ bridge.mic_muted /\ volume = (8 * Unit) \div 10
    /\ Len(sd) >= 1 /\ sd[Len(sd)] = "closed"

\* C28: while the mic is muted the system mic volume is the 0.0 the mute
\* set, whatever mic-fader events arrive, and the bridge remembers the value
\* of the most recent one; once unmuted by a toggle the system mic volume is
\* the value of the most recent mic-fader event, 1.0 if there was none.
C28_MicFaderWhileMuted ==
    /\ bridge.mic_muted => bridge.sys_mic = 0
    /\ bridge.mic_volume = (IF bridge.last_fader = 0 - 1 THEN Unit
                            ELSE bridge.last_fader)
    /\ ~bridge.mic_muted /\ bridge.toggles > 0 =>
           bridge.sys_mic = (IF bridge.last_fader = 0 - 1 THEN Unit
                             ELSE bridge.last_fader)

\* the mic was muted, the fader moved to 0.3 while it was, and the unmute
\* has set the system mic volume to 0.3
C28_Witness ==
    /\ ~bridge.mic_muted /\ bridge.toggles = 2
    /\ bridge.last_fader = (3 * Unit) \div 10
    /\ bridge.sys_mic = (3 * Unit) \div 10
    /\ thr[ControllerThread].op = "set_muted" /\ thr[ControllerThread].pc = "sync"


\* C29: at most one connection-loop thread is alive and inside its loop at
\* any time, whatever the calls of start() and stop(), the reconnect path
\* (stop(), then start() while the loop thread of before may still sleep)
\* included
C29_OneLoopThread ==
    Cardinality({i \in LoopThreads : conn.threads[i].pc # "exited"}) <= 1

\* C30: controller_disconnected is emitted only after controller_connected
\* in the same loop iteration, at most once per connection, never for a
\* disconnection that stop() caused, and whenever a loop thread is between
\* two attempts (past its finally clause, before its next test of
\* self._running) connected is false and no controller is held
C30_SignalsAlternate ==
    /\ \A i \in LoopThreads :
           /\ conn.threads[i].emits <= 1
           /\ conn.threads[i].emits = 1 => conn.threads[i].was_connected
    /\ conn.emitted.sig = "controller_disconnected" => conn.emitted.why # "stop"
    /\ \A i \in LoopThreads :
           conn.threads[i].pc = "l146" =>
               ~conn.connected /\ conn.controller = NoController

\* C31: under any interleaving of play_sound calls from several threads the
\* mixer is initialised successfully at most once, and exactly once when it
\* is marked ready; a call that finds it ready does not initialise; a failed
\* initialisation leaves it marked not ready and its play_sound returns
\* without playing or raising; a call that finds it not ready tries again
C31_InitOnce ==
    /\ [](/\ player.inits <= 1
          /\ player.ready => player.inits = 1
          /\ \A t \in Players :
                 /\ player.thr[t].saw_ready => ~player.thr[t].tried
                 /\ player.thr[t].failed =>
                        /\ ~player.thr[t].ready_at_fail
                        /\ ~player.thr[t].played
                        /\ ~player.thr[t].raised
                 /\ player.thr[t].pc = "idle" => ~player.thr[t].raised)
    /\ [][\A t \in Players :
             player.thr[t].pc = "l14" /\ player'.thr[t].pc # "l14" =>
                 player'.thr[t].pc = IF player.ready THEN "l36" ELSE "l17"]_vars

\* a first call failed to initialise, a later one initialised, and a call
\* after that found the mixer ready and played
C31_Witness ==
    /\ player.inits = 1 /\ player.fails >= 1
    /\ \E t \in Players :
           /\ player.thr[t].pc = "idle"
           /\ player.thr[t].saw_ready /\ player.thr[t].played

\* the pad action of a slot in self._data = data
SlotAction(data, slot) == get_pad_action(data, slot[1], slot[2], slot[3])

\* C32: get_pad_action after set_pad_action of an action whose type is not
\* "none" returns that action, and {"type": "none"} after one of type "none"
\* or without a type; set_pad_action leaves every other slot as it was; a
\* slot never set returns {"type": "none"}
C32_PadRoundTrip ==
    /\ [](/\ config.set.called =>
                 SlotAction(config.data, config.set.slot) =
                     IF Get(config.set.action, "type", "none") = "none"
                     THEN NoneAction
                     ELSE config.set.action
          /\ config.got.called =>
                 config.got.value = SlotAction(config.data, config.got.slot)
          /\ \A slot \in PadSlots \ config.touched :
                 SlotAction(config.data, slot) = NoneAction)
    /\ [][config'.sets # config.sets =>
             \A slot \in PadSlots \ {config'.set.slot} :
                 SlotAction(config'.data, slot) = SlotAction(config.data, slot)]_vars

\* an action was set on one slot, another slot's action was then removed,
\* and the first slot read back
C32_Witness ==
    /\ config.sets = MaxSets
    /\ Get(config.set.action, "type", "none") = "none"
    /\ config.got.called
    /\ config.got.slot # config.set.slot
    /\ config.got.value # NoneAction
    /\ config.got.slot[1] = 3 /\ config.got.slot[3] = 10


====
